---- MODULE Spec2Model ----
(***************************************************************************)
(* Hybrid retriever of RAG-CareQuery: src/src/rag_retriever.py             *)
(* (RAGRetriever), its cache blob cache/bm25_index.pkl, the Chroma         *)
(* collection written by src/src/vectors.py and the ingestion run of       *)
(* src/src/main.py.                                                        *)
(*                                                                         *)
(* Representation.                                                         *)
(*  - A string is the sequence of its characters; " " is the separator     *)
(*    that str.split(" ") cuts at.                                         *)
(*  - A float that the fusion produces is an exact rational <<n, d>> in    *)
(*    lowest terms.  For top_k <= 10 (the range of the slider in app.py)   *)
(*    the sums 1/(61+r) + 1/(61+s) that the code can form are equal as     *)
(*    doubles exactly when they are equal as rationals, so ordering and    *)
(*    ties agree with the doubles of the program.                          *)
(*  - rank_bm25.BM25Okapi and numpy are libraries outside the repository.  *)
(*    The scorer is an integer abstraction that keeps the library's shape  *)
(*    (a sum over the query tokens of weight * term frequency) and the     *)
(*    sign of its idf weight, log((N - n + 0.5) / (n + 0.5)).              *)
(*  - Environment: the Chroma snapshot read and the cache write succeed;   *)
(*    the embedding call / vector query may fail; the cache directory may  *)
(*    hold a damaged file when the program first runs, and the cache file  *)
(*    may be damaged between runs.                                         *)
(***************************************************************************)
EXTENDS Integers, Sequences, FiniteSets, TLC

VARIABLES
    store,           \* Chroma collection: sequence of [id, content, metadata], insertion order
    blob,            \* the file cache/bm25_index.pkl
    ingests,         \* number of ingestion runs that reached the store
    constructed,     \* a RAGRetriever exists (load_chain's cached resource)
    bm25,            \* self.bm25
    doc_registry,    \* self.doc_registry: function from position to entry
    initLog,         \* how _initialize_bm25 ran: its path, whether the blob it found
                     \* was bad, and the snapshot it had (observation only)
    inits,           \* runs of _initialize_bm25 on the live retriever (observation only)
    saved,           \* the record last written by pickle.dump (observation only)
    pc,              \* position of the retrieve call: "idle" or "running"
    call,            \* arguments of the current / last retrieve call
    vstat,           \* future_vector: "none", "pending", "done"
    lstat,           \* future_bm25: "none", "pending", "done", "raised"
    vfailed,         \* the vector path hit its except branch in this call
    first,           \* the task of this call that finished first: "none", "vector",
                     \* "lexical" (observation only)
    vector_results,  \* result of _vector_search
    bm25_results,    \* result of _bm25_search
    final_results,   \* value returned by retrieve
    outcome          \* of the last retrieve: "none", "returned", "raised"

vars == <<store, blob, ingests, constructed, bm25, doc_registry, initLog, inits, saved,
          pc, call, vstat, lstat, vfailed, first, vector_results, bm25_results,
          final_results, outcome>>

----------------------------------------------------------------------------
(* Bounds of the model *)

MaxTopK == 2
MaxBatch == 2
MaxIngests == 2

(* Program constant: k of the Reciprocal Rank Fusion *)
k == 60

----------------------------------------------------------------------------
(* Data the environment supplies *)

DocIds == {"a", "b", "c"}

\* page_content of the chunk whose md5 is the id (vectors.py:58)
ContentOf(id) ==
    CASE id = "a" -> <<"x">>
      [] id = "b" -> <<"y">>
      [] OTHER    -> <<"z", " ", "x">>

Queries == { <<"z">>, <<"y", " ", "z">>, <<"z", " ", "z", " ", "y">> }

TopKs == 1..MaxTopK

\* score_threshold values of the slider: 0.0 and its default 0.03
Thresholds == { <<0, 1>>, <<3, 100>> }

IsInjective(s) == \A i, j \in 1..Len(s) : s[i] = s[j] => i = j

\* sequences without repetition over S, of length lo..hi
DistinctSeqs(S, lo, hi) ==
    UNION { { s \in [1..n -> S] : IsInjective(s) } : n \in lo..hi }

Min(x, y) == IF x <= y THEN x ELSE y

----------------------------------------------------------------------------
(* Rationals standing for the floats of the fusion *)

RECURSIVE Gcd(_, _)
Gcd(x, y) == IF y = 0 THEN x ELSE Gcd(y, x % y)

Norm(r) == LET g == Gcd(r[1], r[2]) IN <<r[1] \div g, r[2] \div g>>

RatAdd(p, q) == Norm(<<p[1] * q[2] + q[1] * p[2], p[2] * q[2]>>)

RatLess(p, q) == p[1] * q[2] < q[1] * p[2]

Zero == <<0, 1>>

----------------------------------------------------------------------------
(* str.split(" ") *)

RECURSIVE SplitFrom(_, _, _)
SplitFrom(s, i, cur) ==
    IF i > Len(s) THEN <<cur>>
    ELSE IF s[i] = " " THEN <<cur>> \o SplitFrom(s, i + 1, <<>>)
    ELSE SplitFrom(s, i + 1, Append(cur, s[i]))

Split(s) == SplitFrom(s, 1, <<>>)

----------------------------------------------------------------------------
(* The Chroma collection (vectors.py) *)

\* one element of add_documents' upsert: the i-th chunk of the batch (0-based)
StoreRecord(id, i) ==
    [id |-> id, content |-> ContentOf(id),
     metadata |-> [doc_index |-> i, content_length |-> Len(ContentOf(id))]]

IndexOfId(st, id) == CHOOSE i \in 1..Len(st) : st[i].id = id

\* collection.upsert of one record: replace in place or append
UpsertOne(st, rec) ==
    IF \E i \in 1..Len(st) : st[i].id = rec.id
    THEN [st EXCEPT ![IndexOfId(st, rec.id)] = rec]
    ELSE Append(st, rec)

RECURSIVE UpsertFrom(_, _, _)
UpsertFrom(st, batch, i) ==
    IF i > Len(batch) THEN st
    ELSE UpsertFrom(UpsertOne(st, StoreRecord(batch[i], i - 1)), batch, i + 1)

\* VectorStore.add_documents: ids are content hashes, doc_index is the batch position
add_documents(st, batch) == UpsertFrom(st, batch, 1)

StoreIds(st) == { st[i].id : i \in 1..Len(st) }

----------------------------------------------------------------------------
(* The lexical index (rank_bm25.BM25Okapi, abstracted) and the registry *)

None == [tag |-> "None", corpus |-> <<>>]

\* an object that is not a BM25Okapi: it has no get_scores
Junk == [tag |-> "junk", corpus |-> <<>>]

\* BM25Okapi(tokenized_corpus)
BM25Okapi(tokenized_corpus) == [tag |-> "BM25Okapi", corpus |-> tokenized_corpus]

\* tokenized_corpus = [doc.split(" ") for doc in documents]
TokenizedCorpus(st) == [i \in 1..Len(st) |-> Split(st[i].content)]

\* occurrences of token q in the tokenized document d
Tf(q, d) == Cardinality({ j \in 1..Len(d) : d[j] = q })

\* sign-faithful stand-in for idf: positive iff fewer than half the documents hold q
Weight(corpus, q) ==
    Len(corpus) - 2 * Cardinality({ i \in 1..Len(corpus) : Tf(q, corpus[i]) > 0 })

RECURSIVE ScoreFrom(_, _, _, _)
ScoreFrom(corpus, d, tokens, j) ==
    IF j > Len(tokens) THEN 0
    ELSE Weight(corpus, tokens[j]) * Tf(tokens[j], d)
         + ScoreFrom(corpus, d, tokens, j + 1)

\* BM25Okapi.get_scores: one score per document position (0-based)
get_scores(index, tokenized_query) ==
    [i \in 0..(Len(index.corpus) - 1) |->
        ScoreFrom(index.corpus, index.corpus[i + 1], tokenized_query, 1)]

\* np.argsort(doc_scores): positions by ascending score, equal scores in position order
RECURSIVE ArgsortInsert(_, _, _)
ArgsortInsert(sorted, idx, scores) ==
    IF sorted = <<>> THEN <<idx>>
    ELSE IF scores[sorted[Len(sorted)]] <= scores[idx] THEN Append(sorted, idx)
    ELSE Append(ArgsortInsert(SubSeq(sorted, 1, Len(sorted) - 1), idx, scores),
                sorted[Len(sorted)])

RECURSIVE ArgsortFrom(_, _, _)
ArgsortFrom(sorted, i, scores) ==
    IF i \notin DOMAIN scores THEN sorted
    ELSE ArgsortFrom(ArgsortInsert(sorted, i, scores), i + 1, scores)

argsort(scores) == ArgsortFrom(<<>>, 0, scores)

Reverse(s) == [i \in 1..Len(s) |-> s[Len(s) + 1 - i]]

Take(s, n) == SubSeq(s, 1, Min(n, Len(s)))

EmptyRegistry == [i \in {} |-> 0]

\* doc_registry[idx] = {'id', 'content', 'metadata'} for idx, ... in enumerate(zip(...))
BuildRegistry(st) ==
    [idx \in 0..(Len(st) - 1) |->
        [id |-> st[idx + 1].id, content |-> st[idx + 1].content,
         metadata |-> st[idx + 1].metadata]]

----------------------------------------------------------------------------
(* The cache blob: pickle.dump / pickle.load *)

NoFile == [kind |-> "missing", keys |-> {}, bm25 |-> <<"None", <<>>>>, doc_registry |-> <<>>]

\* bytes that pickle.load rejects
Garbage == [kind |-> "garbage", keys |-> {}, bm25 |-> <<"None", <<>>>>, doc_registry |-> <<>>]

\* the registry is written as its (position, entry) items, in key order
DumpRegistry(reg) ==
    [n \in 1..Cardinality(DOMAIN reg) |-> <<n - 1, reg[n - 1]>>]

\* mutant: the positions come back counted from 1
LoadRegistryFromOne(items) ==
    [idx \in { items[n][1] + 1 : n \in 1..Len(items) } |->
        (items[CHOOSE n \in 1..Len(items) : items[n][1] + 1 = idx])[2]]

LoadRegistry(items) ==
    [idx \in { items[n][1] : n \in 1..Len(items) } |->
        (items[CHOOSE n \in 1..Len(items) : items[n][1] = idx])[2]]

\* pickle.dump({'bm25': self.bm25, 'doc_registry': self.doc_registry}, f)
PickleDump(data) ==
    [kind |-> "pickle", keys |-> {"bm25", "doc_registry"},
     bm25 |-> <<data.bm25.tag, data.bm25.corpus>>,
     doc_registry |-> DumpRegistry(data.doc_registry)]

LoadIndex(b) == [tag |-> b.bm25[1], corpus |-> b.bm25[2]]

\* the blob is missing, does not unpickle, or lacks one of its two fields
BadBlob(b) == b.kind # "pickle" \/ b.keys # {"bm25", "doc_registry"}

\* a pickled dict that holds only the field f of data
PickleDumpOnly(data, f) == [PickleDump(data) EXCEPT !.keys = {f}]

\* mutant: the path removed is not the path the retriever reads
InvalidateCacheOtherPath(b) == b

\* main.py 40-44: os.remove(cache_path) when the file exists
InvalidateCache(b) == NoFile

\* lines 29-39: what the load attempt leaves in self.bm25 / self.doc_registry,
\* and whether it reached the return of line 37
LoadAttempt(b) ==
    IF b.kind # "pickle" \/ "bm25" \notin b.keys
    THEN [ok |-> FALSE, bm25 |-> None, doc_registry |-> EmptyRegistry]
    ELSE IF "doc_registry" \notin b.keys
    THEN [ok |-> FALSE, bm25 |-> LoadIndex(b), doc_registry |-> EmptyRegistry]
    ELSE [ok |-> TRUE, bm25 |-> LoadIndex(b),
          doc_registry |-> LoadRegistry(b.doc_registry)]

\* RAGRetriever._initialize_bm25 on the cache file b and the collection st
InitializeBm25(b, st) ==
    LET l == LoadAttempt(b) IN
    IF l.ok
    THEN [bm25 |-> l.bm25, doc_registry |-> l.doc_registry, blob |-> b,
          path |-> "loaded"]
    ELSE IF Len(st) = 0
    THEN [bm25 |-> l.bm25, doc_registry |-> l.doc_registry, blob |-> b,
          path |-> "empty"]
    ELSE LET built == [bm25 |-> BM25Okapi(TokenizedCorpus(st)),
                       doc_registry |-> BuildRegistry(st)]
         IN [bm25 |-> built.bm25, doc_registry |-> built.doc_registry,
             blob |-> PickleDump(built), path |-> "rebuilt"]

----------------------------------------------------------------------------
(* The two search paths *)

\* lines 85-92: the candidates made from the ids the collection query returned;
\* 'score' is the distance, which grows with the position in the response
VectorItems(st, ids) ==
    [i \in 1..Len(ids) |->
        [id |-> ids[i], content |-> st[IndexOfId(st, ids[i])].content,
         metadata |-> st[IndexOfId(st, ids[i])].metadata, score |-> i - 1]]

\* collection.query(n_results = top_k): the nearest ids, any order the embedding gives
VectorResponses(st, top_k) ==
    DistinctSeqs(StoreIds(st), Min(top_k, Len(st)), Min(top_k, Len(st)))

\* line 102 raises when self.bm25 is truthy and is no BM25Okapi
Bm25Raises(index) == index.tag = "junk"

RECURSIVE Bm25Collect(_, _, _, _)
Bm25Collect(top_n, doc_scores, registry, i) ==
    IF i > Len(top_n) THEN <<>>
    ELSE LET idx == top_n[i] IN
         (IF doc_scores[idx] > 0 /\ idx \in DOMAIN registry
          THEN << [id |-> registry[idx].id, content |-> registry[idx].content,
                   metadata |-> registry[idx].metadata, score |-> doc_scores[idx]] >>
          ELSE <<>>)
         \o Bm25Collect(top_n, doc_scores, registry, i + 1)

\* RAGRetriever._bm25_search, for an index that does not raise
bm25_search(index, registry, query, top_k) ==
    IF index.tag = "None" THEN <<>>
    ELSE LET doc_scores == get_scores(index, Split(query))
             top_n      == Take(Reverse(argsort(doc_scores)), top_k)
         IN Bm25Collect(top_n, doc_scores, registry, 1)

----------------------------------------------------------------------------
(* Reciprocal Rank Fusion and the result of retrieve *)

HasId(fused, id) == \E j \in 1..Len(fused) : fused[j].id = id

PosOfId(fused, id) == CHOOSE j \in 1..Len(fused) : fused[j].id = id

\* mutant: the rank is taken 1-based already, 1 / (k + rank)
RankScoreNoPlusOne(rank) == <<1, k + rank>>

\* the increment of line 144 for a 0-based rank
RankScore(rank) == <<1, k + rank + 1>>

\* mutant: the increment is assigned (=) where the code accumulates (+=)
ProcessItemOverwrite(fused, item, rank) ==
    LET f1 == IF HasId(fused, item.id) THEN fused
              ELSE Append(fused, [id |-> item.id, score |-> Zero,
                                  content |-> item.content,
                                  metadata |-> item.metadata])
    IN [f1 EXCEPT ![PosOfId(f1, item.id)].score = RankScore(rank)]

\* one iteration of the loop of process_results on results[i]
ProcessItem(fused, item, rank) ==
    LET f1 == IF HasId(fused, item.id) THEN fused
              ELSE Append(fused, [id |-> item.id, score |-> Zero,
                                  content |-> item.content,
                                  metadata |-> item.metadata])
    IN [f1 EXCEPT ![PosOfId(f1, item.id)].score = RatAdd(@, RankScore(rank))]

RECURSIVE ProcessFrom(_, _, _)
ProcessFrom(fused, results, i) ==
    IF i > Len(results) THEN fused
    ELSE ProcessFrom(ProcessItem(fused, results[i], i - 1), results, i + 1)

\* process_results(results): fused_scores is a dict, kept here in insertion order
process_results(fused, results) == ProcessFrom(fused, results, 1)

\* mutant: an ascending sort that is then reversed, which turns ties around
RECURSIVE SortInsertTiesReversed(_, _)
SortInsertTiesReversed(sorted, e) ==
    IF sorted = <<>> THEN <<e>>
    ELSE IF RatLess(e.score, sorted[Len(sorted)].score) THEN Append(sorted, e)
    ELSE Append(SortInsertTiesReversed(SubSeq(sorted, 1, Len(sorted) - 1), e),
                sorted[Len(sorted)])

\* sorted(..., key = score, reverse = True): descending and stable
RECURSIVE SortInsert(_, _)
SortInsert(sorted, e) ==
    IF sorted = <<>> THEN <<e>>
    ELSE IF ~RatLess(sorted[Len(sorted)].score, e.score) THEN Append(sorted, e)
    ELSE Append(SortInsert(SubSeq(sorted, 1, Len(sorted) - 1), e),
                sorted[Len(sorted)])

RECURSIVE SortFrom(_, _, _)
SortFrom(sorted, fused, i) ==
    IF i > Len(fused) THEN sorted
    ELSE SortFrom(SortInsert(sorted, fused[i]), fused, i + 1)

SortByScore(fused) == SortFrom(<<>>, fused, 1)

\* lines 133-147
FusedScores(vec, lex) == process_results(process_results(<<>>, vec), lex)

\* mutant: the slice [:top_k] of line 153 is missing
FuseNoTruncation(vec, lex, top_k, score_threshold) ==
    LET sorted_ids == SortByScore(FusedScores(vec, lex))
    IN [i \in 1..Len(sorted_ids) |->
           [id |-> sorted_ids[i].id, content |-> sorted_ids[i].content,
            metadata |-> sorted_ids[i].metadata,
            similarity_score |-> sorted_ids[i].score]]

\* mutant: results whose fused score is below score_threshold are dropped
FuseWithThreshold(vec, lex, top_k, score_threshold) ==
    LET sorted_ids == SortByScore(FusedScores(vec, lex))
        kept       == SelectSeq(sorted_ids,
                                LAMBDA e : ~RatLess(e.score, score_threshold))
        top        == Take(kept, top_k)
    IN [i \in 1..Len(top) |->
           [id |-> top[i].id, content |-> top[i].content,
            metadata |-> top[i].metadata, similarity_score |-> top[i].score]]

\* lines 131-163: the value retrieve returns from the two candidate lists
Fuse(vec, lex, top_k, score_threshold) ==
    LET sorted_ids == SortByScore(FusedScores(vec, lex))
        top        == Take(sorted_ids, top_k)
    IN [i \in 1..Len(top) |->
           [id |-> top[i].id, content |-> top[i].content,
            metadata |-> top[i].metadata, similarity_score |-> top[i].score]]

----------------------------------------------------------------------------
(* State machine *)

NoCall == [query |-> <<>>, top_k |-> 1, score_threshold |-> Zero]

NoLog == [path |-> "none", badBlob |-> FALSE, snapshot |-> <<>>]

NoSaved == [valid |-> FALSE, bm25 |-> None, doc_registry |-> EmptyRegistry]

\* a collection of an earlier deployment, whose cache file may have been left behind
LeftoverStore == add_documents(<<>>, <<"c", "b", "a">>)

LeftoverRecord ==
    [bm25 |-> BM25Okapi(TokenizedCorpus(LeftoverStore)),
     doc_registry |-> BuildRegistry(LeftoverStore)]

\* what cache/bm25_index.pkl can be when the program first runs on an empty
\* collection: absent, or a file that load cannot use
InitialBlobs ==
    { NoFile, Garbage,
      PickleDumpOnly(LeftoverRecord, "bm25"),
      PickleDumpOnly(LeftoverRecord, "doc_registry") }

Init ==
    /\ store = <<>>
    /\ blob \in InitialBlobs
    /\ ingests = 0
    /\ constructed = FALSE
    /\ bm25 = None
    /\ doc_registry = EmptyRegistry
    /\ initLog = NoLog
    /\ inits = 0
    /\ saved = NoSaved
    /\ pc = "idle"
    /\ call = NoCall
    /\ vstat = "none"
    /\ lstat = "none"
    /\ vfailed = FALSE
    /\ first = "none"
    /\ vector_results = <<>>
    /\ bm25_results = <<>>
    /\ final_results = <<>>
    /\ outcome = "none"

callVars == <<pc, call, vstat, lstat, vfailed, first, vector_results, bm25_results,
              final_results, outcome>>

retrieverVars == <<constructed, bm25, doc_registry, initLog, inits>>

\* st.cache_resource.clear(): the cached retriever is dropped
DropRetriever ==
    /\ constructed' = FALSE
    /\ bm25' = None
    /\ doc_registry' = EmptyRegistry
    /\ initLog' = NoLog
    /\ inits' = 0
    /\ pc' = "idle"
    /\ call' = NoCall
    /\ vstat' = "none"
    /\ lstat' = "none"
    /\ vfailed' = FALSE
    /\ first' = "none"
    /\ vector_results' = <<>>
    /\ bm25_results' = <<>>
    /\ final_results' = <<>>
    /\ outcome' = "none"

\* app.py 47-54 with main.ingest_knowledge_base: the chunks are `batch`;
\* `fails` is an exception before or in the upsert (embedding, Chroma)
RefreshKnowledgeBase ==
    /\ pc = "idle"
    /\ ingests < MaxIngests
    /\ \E batch \in DistinctSeqs(DocIds, 0, MaxBatch), fails \in BOOLEAN :
          IF batch = <<>> /\ ~fails
          THEN \* "No documents found to ingest": returns, then the cache is cleared
               /\ DropRetriever
               /\ UNCHANGED <<store, blob, ingests, saved>>
          ELSE IF fails
          THEN UNCHANGED vars
          ELSE /\ store' = add_documents(store, batch)
               /\ blob' = InvalidateCache(blob)
               /\ saved' = NoSaved
               /\ ingests' = ingests + 1
               /\ DropRetriever

\* app.py 56-59
ResetAppCache ==
    /\ pc = "idle"
    /\ constructed
    /\ DropRetriever
    /\ UNCHANGED <<store, blob, ingests, saved>>

\* load_chain -> get_rag_chain -> RAGRetriever.__init__
Construct ==
    /\ ~constructed
    /\ LET r == InitializeBm25(blob, store) IN
          /\ bm25' = r.bm25
          /\ doc_registry' = r.doc_registry
          /\ blob' = r.blob
          /\ initLog' = [path |-> r.path, badBlob |-> BadBlob(blob),
                          snapshot |-> store]
          /\ saved' = IF r.path = "rebuilt"
                      THEN [valid |-> TRUE, bm25 |-> r.bm25,
                            doc_registry |-> r.doc_registry]
                      ELSE saved
    /\ constructed' = TRUE
    /\ inits' = inits + 1
    /\ UNCHANGED <<store, ingests>>
    /\ UNCHANGED callVars

\* the cache file is damaged between runs: cut short, ...
TruncateBlob ==
    /\ ~constructed
    /\ blob.kind = "pickle"
    /\ blob' = Garbage
    /\ saved' = NoSaved
    /\ UNCHANGED <<store, ingests>>
    /\ UNCHANGED retrieverVars
    /\ UNCHANGED callVars

\* ... written without one of its two fields, ...
DropField ==
    /\ ~constructed
    /\ blob.kind = "pickle"
    /\ blob.keys = {"bm25", "doc_registry"}
    /\ \E f \in blob.keys : blob' = [blob EXCEPT !.keys = @ \ {f}]
    /\ saved' = NoSaved
    /\ UNCHANGED <<store, ingests>>
    /\ UNCHANGED retrieverVars
    /\ UNCHANGED callVars

\* ... or holding under 'bm25' an object that is no BM25Okapi
ReplaceIndex ==
    /\ ~constructed
    /\ blob.kind = "pickle"
    /\ blob.keys = {"bm25", "doc_registry"}
    /\ blob.bm25[1] = "BM25Okapi"
    /\ blob' = [blob EXCEPT !.bm25 = <<Junk.tag, Junk.corpus>>]
    /\ saved' = NoSaved
    /\ UNCHANGED <<store, ingests>>
    /\ UNCHANGED retrieverVars
    /\ UNCHANGED callVars

\* mutant: retrieve runs _initialize_bm25 again before it submits the tasks
RetrieveStartReinitializes ==
    /\ constructed
    /\ pc = "idle"
    /\ \E q \in Queries, top_k \in TopKs, thr \in Thresholds :
          call' = [query |-> q, top_k |-> top_k, score_threshold |-> thr]
    /\ LET r == InitializeBm25(blob, store) IN
          /\ bm25' = r.bm25
          /\ doc_registry' = r.doc_registry
          /\ blob' = r.blob
    /\ inits' = inits + 1
    /\ pc' = "running"
    /\ vstat' = "pending"
    /\ lstat' = "pending"
    /\ vfailed' = FALSE
    /\ first' = "none"
    /\ vector_results' = <<>>
    /\ bm25_results' = <<>>
    /\ final_results' = <<>>
    /\ outcome' = "none"
    /\ UNCHANGED <<store, ingests, saved, constructed, initLog>>

\* retrieve, lines 121-126: both tasks are submitted
RetrieveStart ==
    /\ constructed
    /\ pc = "idle"
    /\ \E q \in Queries, top_k \in TopKs, thr \in Thresholds :
          call' = [query |-> q, top_k |-> top_k, score_threshold |-> thr]
    /\ pc' = "running"
    /\ vstat' = "pending"
    /\ lstat' = "pending"
    /\ vfailed' = FALSE
    /\ first' = "none"
    /\ vector_results' = <<>>
    /\ bm25_results' = <<>>
    /\ final_results' = <<>>
    /\ outcome' = "none"
    /\ UNCHANGED <<store, blob, ingests, saved>>
    /\ UNCHANGED retrieverVars

\* _vector_search returns the candidates of the collection query
VectorSearchReturns ==
    /\ pc = "running"
    /\ vstat = "pending"
    /\ \E ids \in VectorResponses(store, call.top_k) :
          vector_results' = VectorItems(store, ids)
    /\ vstat' = "done"
    /\ first' = (IF first = "none" THEN "vector" ELSE first)
    /\ UNCHANGED <<store, blob, ingests, saved, pc, call, lstat, vfailed,
                   bm25_results, final_results, outcome>>
    /\ UNCHANGED retrieverVars

\* mutant: the except branch of the vector path also removes the cache file
VectorSearchFailsDropsCache ==
    /\ pc = "running"
    /\ vstat = "pending"
    /\ vector_results' = <<>>
    /\ vfailed' = TRUE
    /\ vstat' = "done"
    /\ first' = (IF first = "none" THEN "vector" ELSE first)
    /\ blob' = NoFile
    /\ UNCHANGED <<store, ingests, saved, pc, call, lstat,
                   bm25_results, final_results, outcome>>
    /\ UNCHANGED retrieverVars

\* _vector_search: generate_embedding or collection.query raises (lines 93-95)
VectorSearchFails ==
    /\ pc = "running"
    /\ vstat = "pending"
    /\ vector_results' = <<>>
    /\ vfailed' = TRUE
    /\ vstat' = "done"
    /\ first' = (IF first = "none" THEN "vector" ELSE first)
    /\ UNCHANGED <<store, blob, ingests, saved, pc, call, lstat,
                   bm25_results, final_results, outcome>>
    /\ UNCHANGED retrieverVars

\* _bm25_search runs to its end or raises
Bm25Search ==
    /\ pc = "running"
    /\ lstat = "pending"
    /\ IF Bm25Raises(bm25)
       THEN /\ lstat' = "raised"
            /\ UNCHANGED bm25_results
       ELSE /\ lstat' = "done"
            /\ bm25_results' = bm25_search(bm25, doc_registry, call.query, call.top_k)
    /\ first' = (IF first = "none" THEN "lexical" ELSE first)
    /\ UNCHANGED <<store, blob, ingests, saved, pc, call, vstat, vfailed,
                   vector_results, final_results, outcome>>
    /\ UNCHANGED retrieverVars

\* mutant: the lists are fused in the order their tasks completed
RetrieveJoinAsCompleted ==
    /\ pc = "running"
    /\ vstat = "done"
    /\ lstat \in {"done", "raised"}
    /\ IF lstat = "raised"
       THEN /\ outcome' = "raised"
            /\ UNCHANGED final_results
       ELSE /\ outcome' = "returned"
            /\ final_results' =
                  IF first = "lexical"
                  THEN Fuse(bm25_results, vector_results, call.top_k,
                            call.score_threshold)
                  ELSE Fuse(vector_results, bm25_results, call.top_k,
                            call.score_threshold)
    /\ pc' = "idle"
    /\ UNCHANGED <<store, blob, ingests, saved, call, vstat, lstat, vfailed,
                   first, vector_results, bm25_results>>
    /\ UNCHANGED retrieverVars

\* lines 128-163: both futures are joined, then fusion, sort and truncation;
\* future_bm25.result() re-raises what the task raised
RetrieveJoin ==
    /\ pc = "running"
    /\ vstat = "done"
    /\ lstat \in {"done", "raised"}
    /\ IF lstat = "raised"
       THEN /\ outcome' = "raised"
            /\ UNCHANGED final_results
       ELSE /\ outcome' = "returned"
            /\ final_results' = Fuse(vector_results, bm25_results, call.top_k,
                                     call.score_threshold)
    /\ pc' = "idle"
    /\ UNCHANGED <<store, blob, ingests, saved, call, vstat, lstat, vfailed,
                   first, vector_results, bm25_results>>
    /\ UNCHANGED retrieverVars

Next ==
    \/ RefreshKnowledgeBase
    \/ ResetAppCache
    \/ Construct
    \/ TruncateBlob
    \/ DropField
    \/ ReplaceIndex
    \/ RetrieveStart
    \/ VectorSearchReturns
    \/ VectorSearchFails
    \/ Bm25Search
    \/ RetrieveJoin

Spec == Init /\ [][Next]_vars

----------------------------------------------------------------------------
(* Reading the state of a finished retrieve call *)

Returned == pc = "idle" /\ outcome = "returned"

Finished == pc = "idle" /\ outcome # "none"

IdsOf(list) == { list[i].id : i \in 1..Len(list) }

NoRepeat(list) == \A i, j \in 1..Len(list) : list[i].id = list[j].id => i = j

InList(list, id) == \E i \in 1..Len(list) : list[i].id = id

\* 0-based position of id in list
RankIn(list, id) == (CHOOSE i \in 1..Len(list) : list[i].id = id) - 1

\* p and q are the same number
RatEq(p, q) == p[1] * q[2] = q[1] * p[2]

\* 1/(60 + r + 1) + 1/(60 + s + 1), unreduced
TwoListScore(r, s) == <<(61 + r) + (61 + s), (61 + r) * (61 + s)>>

\* the score the RRF formula gives id for the lists vec and lex
RrfScore(vec, lex, id) ==
    IF InList(vec, id) /\ InList(lex, id)
    THEN TwoListScore(RankIn(vec, id), RankIn(lex, id))
    ELSE IF InList(vec, id) THEN <<1, 61 + RankIn(vec, id)>>
    ELSE IF InList(lex, id) THEN <<1, 61 + RankIn(lex, id)>>
    ELSE <<0, 1>>

----------------------------------------------------------------------------
(* C1: the fused score of every id in either candidate list, and the        *)
(* similarity_score of every returned result, is the sum over the lists     *)
(* holding the id of 1/(k + rank + 1) with k = 60 and rank its 0-based      *)
(* position; an id at rank 0 of one list and absent from the other gets     *)
(* exactly 1/61.                                                            *)
C1_RrfScores ==
    (Returned /\ NoRepeat(vector_results) /\ NoRepeat(bm25_results)) =>
        LET fused == FusedScores(vector_results, bm25_results) IN
        /\ k = 60
        /\ IdsOf(fused) = IdsOf(vector_results) \cup IdsOf(bm25_results)
        /\ \A j \in 1..Len(fused) :
              RatEq(fused[j].score,
                    RrfScore(vector_results, bm25_results, fused[j].id))
        /\ \A i \in 1..Len(final_results) :
              /\ RatEq(final_results[i].similarity_score,
                       RrfScore(vector_results, bm25_results, final_results[i].id))
              /\ ( /\ InList(vector_results, final_results[i].id)
                      # InList(bm25_results, final_results[i].id)
                   /\ \/ vector_results # <<>>
                         /\ vector_results[1].id = final_results[i].id
                      \/ bm25_results # <<>>
                         /\ bm25_results[1].id = final_results[i].id )
                 => final_results[i].similarity_score = <<1, 61>>

\* a returned call with one id in both lists at different ranks and another id
\* at rank 0 of one list only
C1_Witness ==
    /\ Returned
    /\ \E i, j \in 1..Len(final_results) :
          /\ InList(vector_results, final_results[i].id)
          /\ InList(bm25_results, final_results[i].id)
          /\ RankIn(vector_results, final_results[i].id)
                # RankIn(bm25_results, final_results[i].id)
          /\ ~InList(bm25_results, final_results[j].id)
          /\ vector_results[1].id = final_results[j].id

\* first-observed position during fusion: the vector list, then lexical-only ids
ObservedPos(vec, lex, id) ==
    IF InList(vec, id) THEN RankIn(vec, id)
    ELSE Len(vec) + RankIn(lex, id)

(* C2: the returned sequence is in descending fused-score order, and results *)
(* of equal score are in the order their ids were first observed (vector     *)
(* list in vector order, then lexical-only ids in lexical order).            *)
C2_SortedStable ==
    Returned =>
        \A i, j \in 1..Len(final_results) :
            i < j =>
              \/ RatLess(final_results[j].similarity_score,
                         final_results[i].similarity_score)
              \/ /\ RatEq(final_results[i].similarity_score,
                          final_results[j].similarity_score)
                 /\ ObservedPos(vector_results, bm25_results, final_results[i].id)
                      < ObservedPos(vector_results, bm25_results, final_results[j].id)

\* two returned results tie, the later one known to the lexical list only
C2_Witness ==
    /\ Returned
    /\ \E i, j \in 1..Len(final_results) :
          /\ i < j
          /\ final_results[i].similarity_score = final_results[j].similarity_score
          /\ InList(vector_results, final_results[i].id)
          /\ ~InList(vector_results, final_results[j].id)

(* C3: retrieve returns at most top_k results, no id twice, and every        *)
(* returned id is among the ids of the vector path or the lexical path of    *)
(* that call.                                                                *)
C3_TopKSubset ==
    Returned =>
        /\ call.top_k >= 1
        /\ Len(final_results) <= call.top_k
        /\ NoRepeat(final_results)
        /\ IdsOf(final_results) \subseteq
              IdsOf(vector_results) \cup IdsOf(bm25_results)

\* a returned call whose two paths found more ids than top_k
C3_Witness ==
    /\ Returned
    /\ Len(final_results) = call.top_k
    /\ Cardinality(IdsOf(vector_results) \cup IdsOf(bm25_results)) > call.top_k

\* the lexical candidates alone, fused: rank r gets 1/(60 + r + 1), order kept
LexicalOnly(lex, result) ==
    /\ Len(result) = Len(lex)
    /\ \A r \in 0..(Len(lex) - 1) :
          /\ result[r + 1].id = lex[r + 1].id
          /\ result[r + 1].content = lex[r + 1].content
          /\ result[r + 1].metadata = lex[r + 1].metadata
          /\ result[r + 1].similarity_score = <<1, 61 + r>>

(* C4: when the vector path fails in a retrieve call, it contributes an      *)
(* empty list, retrieve does not raise, and the result is exactly the        *)
(* lexical candidates in lexical order, rank r scored 1/(60 + r + 1).        *)
C4_VectorFailureDegrades ==
    (Finished /\ vfailed) =>
        /\ vector_results = <<>>
        /\ outcome = "returned"
        /\ LexicalOnly(bm25_results, final_results)

\* what does hold of C4: the degradation, in every call whose lexical task
\* does not raise
VectorFailureDegradesUnlessLexicalRaises ==
    (Finished /\ vfailed /\ lstat # "raised") =>
        /\ vector_results = <<>>
        /\ outcome = "returned"
        /\ LexicalOnly(bm25_results, final_results)

(* C5: no error is fatal to retrieve: a failed search task (vector or        *)
(* lexical) contributes an empty list and retrieve returns the other task's  *)
(* fused results without raising; both lists empty gives the empty sequence. *)
C5_NoErrorFatal ==
    Finished =>
        /\ outcome = "returned"
        /\ vfailed => /\ vector_results = <<>>
                      /\ LexicalOnly(bm25_results, final_results)
        /\ lstat = "raised" =>
              /\ bm25_results = <<>>
              /\ LexicalOnly(vector_results, final_results)
        /\ (vector_results = <<>> /\ bm25_results = <<>>) => final_results = <<>>

\* what does hold of C5: every call whose lexical task does not raise returns
LexicalFailureIsTheOnlyRaise ==
    Finished =>
        /\ outcome = "raised" <=> lstat = "raised"
        /\ (outcome = "returned" /\ vector_results = <<>> /\ bm25_results = <<>>)
              => final_results = <<>>

----------------------------------------------------------------------------
(* Reading the state of a constructed retriever *)

\* the index a build over the snapshot snap gives: absent for no documents
IndexFromSnapshot(snap) ==
    IF snap = <<>> THEN [tag |-> "None", corpus |-> <<>>]
    ELSE [tag |-> "BM25Okapi",
          corpus |-> [i \in 1..Len(snap) |-> Split(snap[i].content)]]

IsRegistryOf(reg, snap) ==
    /\ DOMAIN reg = 0..(Len(snap) - 1)
    /\ \A i \in DOMAIN reg :
          /\ reg[i].id = snap[i + 1].id
          /\ reg[i].content = snap[i + 1].content
          /\ reg[i].metadata = snap[i + 1].metadata

RegistryIds(reg) == { reg[i].id : i \in DOMAIN reg }

(* C7: constructed over a cache blob that is missing, does not deserialize   *)
(* or lacks one of its two fields, the retriever does not raise and its      *)
(* index and registry are exactly those built from the current snapshot of   *)
(* the collection, nothing of the bad blob kept.                             *)
C7_CacheMissRebuilds ==
    (constructed /\ initLog.badBlob) =>
        /\ bm25 = IndexFromSnapshot(initLog.snapshot)
        /\ IsRegistryOf(doc_registry, initLog.snapshot)

\* what does hold of C7: the registry always, the index when the snapshot has
\* documents
CacheMissRebuildsUnlessIndexFieldKept ==
    (constructed /\ initLog.badBlob) =>
        /\ initLog.snapshot = store
        /\ IsRegistryOf(doc_registry, initLog.snapshot)
        /\ initLog.snapshot # <<>> => bm25 = IndexFromSnapshot(initLog.snapshot)

(* C8: built over a snapshot with zero documents, construction does not      *)
(* raise, the lexical index is absent afterwards, and every later lexical    *)
(* search (any query, any top_k) returns the empty list without raising.     *)
C8_EmptyCorpusIndexAbsent ==
    (constructed /\ initLog.path = "empty") =>
        /\ initLog.snapshot = <<>>
        /\ bm25 = None
        /\ ~Bm25Raises(bm25)
        /\ \A q \in Queries, top_k \in TopKs :
              bm25_search(bm25, doc_registry, q, top_k) = <<>>
        /\ (lstat = "done" => bm25_results = <<>>)
        /\ lstat # "raised"

\* what does hold of C8: the lexical search is empty and does not raise
EmptyCorpusSearchIsEmpty ==
    (constructed /\ initLog.path = "empty") =>
        /\ initLog.snapshot = <<>>
        /\ doc_registry = EmptyRegistry
        /\ ~Bm25Raises(bm25)
        /\ \A q \in Queries, top_k \in TopKs :
              bm25_search(bm25, doc_registry, q, top_k) = <<>>
        /\ lstat # "raised"

(* C9: cache round trip: a retriever constructed on the blob that an earlier *)
(* retriever built from a non-empty snapshot and saved, the blob untouched   *)
(* in between, holds a registry identical to the saved one and gives the     *)
(* same lexical candidate list as the first for every query.                 *)
C9_CacheRoundTrip ==
    (constructed /\ initLog.path = "loaded" /\ saved.valid) =>
        /\ doc_registry = saved.doc_registry
        /\ ~Bm25Raises(bm25)
        /\ \A q \in Queries, top_k \in TopKs :
              bm25_search(bm25, doc_registry, q, top_k)
                 = bm25_search(saved.bm25, saved.doc_registry, q, top_k)

\* the second retriever has loaded the saved blob and some query has candidates
C9_Witness ==
    /\ constructed
    /\ initLog.path = "loaded"
    /\ saved.valid
    /\ Cardinality(DOMAIN doc_registry) = 3
    /\ \E q \in Queries, top_k \in TopKs :
          Len(bm25_search(bm25, doc_registry, q, top_k)) = 2

(* C10: an ingestion run that completes add_documents has deleted the cache  *)
(* blob when it returns, and every retriever constructed after it has a      *)
(* registry whose ids are exactly the ids of the collection the ingestion    *)
(* left.                                                                     *)
C10_InvalidatedAfterIngestion ==
    [][ /\ (ingests' # ingests) => (blob' = NoFile /\ ~constructed')
        /\ (constructed' /\ ingests' >= 1)
              => RegistryIds(doc_registry') = StoreIds(store') ]_vars

\* a retriever constructed after a second ingestion that added a new id
C10_Witness ==
    /\ constructed
    /\ ingests >= 2
    /\ initLog.path = "rebuilt"
    /\ Cardinality(StoreIds(store)) = 3
    /\ RegistryIds(doc_registry) = {"a", "b", "c"}

----------------------------------------------------------------------------
(* C11: a retriever is cold (no index loaded or built) or ready; it becomes  *)
(* ready exactly once, by its initialization, before it serves any retrieve  *)
(* call; while it lives it never becomes cold again and its index and        *)
(* registry are never initialized a second time.                             *)
C11_ColdReadyOnce ==
    [][ /\ constructed' <=> inits' = 1
        /\ ~constructed' => (bm25' = None /\ doc_registry' = EmptyRegistry)
        /\ (~constructed /\ constructed') =>
              (initLog.path = "none" /\ initLog'.path \in {"loaded", "rebuilt", "empty"})
        /\ (constructed /\ constructed') =>
              (bm25' = bm25 /\ doc_registry' = doc_registry /\ initLog' = initLog)
        /\ (pc = "running" \/ pc' = "running") => (constructed /\ constructed')
      ]_vars

\* a retriever initialized once has served a call that returned results
C11_Witness ==
    /\ constructed
    /\ inits = 1
    /\ initLog.path = "rebuilt"
    /\ Returned
    /\ final_results # <<>>

----------------------------------------------------------------------------
\* p is a positive number
RatPositive(p) == p[1] > 0 /\ p[2] > 0

\* p >= q
RatGeq(p, q) == p[1] * q[2] >= q[1] * p[2]

(* C12: when the two candidate lists are not both empty, every fused score   *)
(* is strictly positive, and an id present in both lists scores at least     *)
(* what it would score at the same rank in the vector list alone and in the  *)
(* lexical list alone.                                                       *)
C12_PositiveMonotone ==
    (Returned /\ (vector_results # <<>> \/ bm25_results # <<>>)) =>
        LET fused == FusedScores(vector_results, bm25_results) IN
        /\ final_results # <<>>
        /\ \A j \in 1..Len(fused) : RatPositive(fused[j].score)
        /\ \A i \in 1..Len(final_results) :
              LET id == final_results[i].id
                  sc == final_results[i].similarity_score
              IN /\ RatPositive(sc)
                 /\ (InList(vector_results, id) /\ InList(bm25_results, id)) =>
                       LET vecOnly == FusedScores(vector_results, <<>>)
                           lexOnly == FusedScores(<<>>, bm25_results)
                       IN /\ RatGeq(sc, <<1, k + RankIn(vector_results, id) + 1>>)
                          /\ RatGeq(sc, <<1, k + RankIn(bm25_results, id) + 1>>)
                          /\ RatGeq(sc, vecOnly[PosOfId(vecOnly, id)].score)
                          /\ RatGeq(sc, lexOnly[PosOfId(lexOnly, id)].score)

\* a returned id that both lists hold, the vector list at the better rank
C12_Witness ==
    /\ Returned
    /\ \E i \in 1..Len(final_results) :
          /\ InList(vector_results, final_results[i].id)
          /\ InList(bm25_results, final_results[i].id)
          /\ RankIn(vector_results, final_results[i].id)
                < RankIn(bm25_results, final_results[i].id)

----------------------------------------------------------------------------
\* the sequence that fusion gives when the vector list is taken first: scores by
\* rank, order by score and then by first observation, cut at top_k
VectorFirstFusion(vec, lex, top_k, out) ==
    /\ Len(out) = Min(top_k, Cardinality(IdsOf(vec) \cup IdsOf(lex)))
    /\ NoRepeat(out)
    /\ \A i \in 1..Len(out) :
          /\ RatEq(out[i].similarity_score, RrfScore(vec, lex, out[i].id))
          /\ IF InList(vec, out[i].id)
             THEN /\ out[i].content = vec[RankIn(vec, out[i].id) + 1].content
                  /\ out[i].metadata = vec[RankIn(vec, out[i].id) + 1].metadata
             ELSE /\ InList(lex, out[i].id)
                  /\ out[i].content = lex[RankIn(lex, out[i].id) + 1].content
                  /\ out[i].metadata = lex[RankIn(lex, out[i].id) + 1].metadata
    /\ \A i \in 1..Len(out), id \in (IdsOf(vec) \cup IdsOf(lex)) :
          LET si == out[i].similarity_score
              sj == RrfScore(vec, lex, id)
              before == \/ RatLess(si, sj)
                        \/ /\ RatEq(si, sj)
                           /\ ObservedPos(vec, lex, id)
                                 < ObservedPos(vec, lex, out[i].id)
          IN before => \E j \in 1..(i - 1) : out[j].id = id

(* C13: in every retrieve call both tasks are submitted before either is     *)
(* awaited, each finishes without touching the other's result, either may    *)
(* finish first, fusion starts only after both have finished, and the        *)
(* returned sequence (ids, order, scores, content and metadata) is the one   *)
(* that takes the vector list first, whichever task finished first.          *)
C13_OrderIndependent ==
    [][ /\ (pc = "idle" /\ pc' = "running") =>
              (vstat' = "pending" /\ lstat' = "pending" /\ first' = "none")
        /\ (pc = "running" /\ pc' = "running" /\ vstat # vstat') =>
              (lstat' = lstat /\ bm25_results' = bm25_results)
        /\ (pc = "running" /\ pc' = "running" /\ lstat # lstat') =>
              (vstat' = vstat /\ vector_results' = vector_results)
        /\ (pc = "running" /\ pc' = "idle") =>
              /\ vstat = "done"
              /\ lstat \in {"done", "raised"}
              /\ first \in {"vector", "lexical"}
              /\ vector_results' = vector_results
              /\ bm25_results' = bm25_results
        /\ (pc = "running" /\ pc' = "idle" /\ outcome' = "returned") =>
              /\ lstat = "done"
              /\ VectorFirstFusion(vector_results, bm25_results, call.top_k,
                                   final_results')
      ]_vars

\* the lexical task finished first, and the call returned a vector-only id
\* ahead of a lexical-only id of the same score
C13_Witness ==
    /\ Returned
    /\ first = "lexical"
    /\ Len(final_results) >= 2
    /\ RatEq(final_results[1].similarity_score, final_results[2].similarity_score)
    /\ InList(vector_results, final_results[1].id)
    /\ ~InList(bm25_results, final_results[1].id)
    /\ InList(bm25_results, final_results[2].id)
    /\ ~InList(vector_results, final_results[2].id)

----------------------------------------------------------------------------
\* index, registry and cache blob are what the construction that initLog
\* describes left behind
AsConstructionLeft ==
    CASE initLog.path = "rebuilt" ->
            /\ bm25 = BM25Okapi(TokenizedCorpus(initLog.snapshot))
            /\ doc_registry = BuildRegistry(initLog.snapshot)
            /\ blob = PickleDump([bm25 |-> bm25, doc_registry |-> doc_registry])
      [] initLog.path = "loaded" ->
            /\ ~BadBlob(blob)
            /\ bm25 = LoadIndex(blob)
            /\ doc_registry = LoadRegistry(blob.doc_registry)
      [] initLog.path = "empty" ->
            /\ BadBlob(blob) <=> initLog.badBlob
            /\ bm25 = LoadAttempt(blob).bm25
            /\ doc_registry = EmptyRegistry
      [] OTHER -> FALSE

(* C14: no step of a retrieve call changes the lexical index, the registry   *)
(* or the cache blob, and when a call has finished (with results, empty, or  *)
(* after a failing vector path) the three are still what construction left.  *)
C14_RetrieveReadOnly ==
    [][ /\ (pc = "running" \/ pc' = "running") =>
              /\ bm25' = bm25
              /\ doc_registry' = doc_registry
              /\ blob' = blob
              /\ store' = store
        /\ (pc = "running" /\ pc' = "idle") =>
              (constructed' /\ AsConstructionLeft')
      ]_vars

\* a call whose vector path failed returned empty on a retriever that holds an
\* index and a cache file
C14_Witness ==
    /\ Returned
    /\ vfailed
    /\ final_results = <<>>
    /\ bm25.tag = "BM25Okapi"
    /\ blob.kind = "pickle"
    /\ inits = 1

----------------------------------------------------------------------------
\* the lexical task of the current / last call ran to its end
LexicalReturned == constructed /\ lstat = "done"

\* the scores the index gives the query, by position (no positions without index)
LexicalScores ==
    IF bm25.tag = "BM25Okapi" THEN get_scores(bm25, Split(call.query))
    ELSE [i \in {} |-> 0]

PositivePositions == { p \in DOMAIN LexicalScores : LexicalScores[p] > 0 }

\* candidate c is the document at position p: the registry's entry, the index's score
CandidateAt(c, p) ==
    /\ p \in DOMAIN doc_registry
    /\ p \in PositivePositions
    /\ c.id = doc_registry[p].id
    /\ c.content = doc_registry[p].content
    /\ c.metadata = doc_registry[p].metadata
    /\ c.score = LexicalScores[p]

\* at most top_k candidates, scores non-increasing, each the registry's entry of
\* a distinct position of positive score, no better position left out
LexicalCandidates(lex, top_k) ==
    /\ Len(lex) = Min(top_k, Cardinality(PositivePositions))
    /\ \A i \in 1..(Len(lex) - 1) : lex[i].score >= lex[i + 1].score
    /\ \E pos \in [1..Len(lex) -> PositivePositions] :
          /\ \A i, j \in 1..Len(lex) : pos[i] = pos[j] => i = j
          /\ \A i \in 1..Len(lex) : CandidateAt(lex[i], pos[i])
          /\ \A p \in PositivePositions :
                (\A i \in 1..Len(lex) : pos[i] # p) =>
                    \A i \in 1..Len(lex) : LexicalScores[p] <= lex[i].score

(* C15: the lexical search returns at most top_k candidates in non-increasing *)
(* score order, exactly the positions of score > 0 among the top_k highest    *)
(* scoring, each with the id, content and metadata the registry holds for its *)
(* position; a registry built from a snapshot of n documents has the keys     *)
(* 0..n-1 and entry i holds the snapshot's i-th id, content and metadata.     *)
C15_LexicalSearch ==
    /\ LexicalReturned => LexicalCandidates(bm25_results, call.top_k)
    /\ (constructed /\ initLog.path = "rebuilt") =>
          IsRegistryOf(doc_registry, initLog.snapshot)

\* C15 for every retriever whose index is not the one kept from a cache blob
\* that lacked its registry (the state C7 describes)
LexicalSearchUnlessIndexFieldKept ==
    /\ (LexicalReturned /\ ~(initLog.path = "empty" /\ bm25.tag = "BM25Okapi")) =>
          LexicalCandidates(bm25_results, call.top_k)
    /\ (constructed /\ initLog.path = "rebuilt") =>
          IsRegistryOf(doc_registry, initLog.snapshot)

\* a search that had to cut: more positions of positive score than top_k
LexicalSearchCuts ==
    /\ LexicalReturned
    /\ initLog.path = "rebuilt"
    /\ Cardinality(PositivePositions) > call.top_k
    /\ Len(bm25_results) = call.top_k

====
